---- MODULE Spec2Model ----
(***************************************************************************)
(* The room view of the moderated multi-party conversation client          *)
(* (src/unnamed/part_002, types in src/app/types.ts): the turn-order       *)
(* functions, the event-stream consumer, the typing debouncer, the role    *)
(* roster and the input gate, as one state machine.                        *)
(*                                                                         *)
(* Strings the code trims or compares (message content, the draft) are     *)
(* sequences of characters; a character is a one-token TLA+ string.        *)
(***************************************************************************)
EXTENDS FiniteSets, Integers, Sequences, TLC

\* ------------------------------------------------------------------ bounds
MaxMsgs == 2        \* longest message log explored
MaxOrderLen == 3    \* longest turn order drawn besides DEFAULT_TURN_ORDER
MaxLogLen == 2      \* longest log drawn for the pure turn-order functions
MaxBurst == 3       \* the burst counters saturate here
MaxInflight == 2    \* submissions awaiting their response at one time
MaxPosts == 2       \* the counter of the posts of a turn saturates here

\* ------------------------------------------------------- program constants
TYPING_DELAY == 800                 \* setTimeout(..., 800)
Tick == TYPING_DELAY \div 2         \* granularity of the clock of the model

Null == "null"                      \* JavaScript null
Undefined == "undefined"            \* JavaScript undefined (a missing field)

TRAVELER_ROLES == <<"traveler_A", "traveler_B", "traveler_C", "traveler_D">>
DEFAULT_TURN_ORDER == <<"moderator">> \o TRAVELER_ROLES
\* "【合意確定】": six characters, named in ASCII
CONSENSUS == <<"LB", "GO", "I", "KAKU", "TEI", "RB">>
END_MARKER == "__END__"
FALLBACK_HUMANS == <<"traveler_B", "traveler_D">>
FALLBACK_AI == <<"traveler_A", "traveler_C">>

\* ------------------------------------------------------------ JS helpers
Range(s) == {s[k] : k \in 1..Len(s)}
Includes(s, x) == \E k \in 1..Len(s) : s[k] = x
\* Array.prototype.indexOf: 0-based first position, or -1
IndexOf(s, x) ==
  IF Includes(s, x)
  THEN (CHOOSE k \in 1..Len(s) : s[k] = x /\ \A j \in 1..(k - 1) : s[j] # x) - 1
  ELSE -1

IsSpace(c) == c \in {" ", "\n"}
RECURSIVE TrimStart(_)
TrimStart(s) ==
  IF s = <<>> THEN s
  ELSE IF IsSpace(Head(s)) THEN TrimStart(Tail(s)) ELSE s
RECURSIVE TrimEnd(_)
TrimEnd(s) ==
  IF s = <<>> THEN s
  ELSE IF IsSpace(s[Len(s)]) THEN TrimEnd(SubSeq(s, 1, Len(s) - 1)) ELSE s
\* String.prototype.trim
Trim(s) == TrimEnd(TrimStart(s))

\* ------------------------------------------------------ TurnOrderEngine
\* mutation: position 0 taken for "not found" (`i ? ... : 0`)
nextSpeaker_TruthyIndex(order, after) ==
  IF Len(order) = 0 THEN after
  ELSE LET i == IndexOf(order, after)
           nextIndex == IF i > 0 THEN (i + 1) % Len(order) ELSE 0
       IN order[nextIndex + 1]

\* mutation: the index is not advanced (`i % order.length`)
nextSpeaker_SameIndex(order, after) ==
  IF Len(order) = 0 THEN after
  ELSE LET i == IndexOf(order, after)
           nextIndex == IF i >= 0 THEN i % Len(order) ELSE 0
       IN order[nextIndex + 1]

nextSpeaker(order, after) ==
  IF Len(order) = 0 THEN after
  ELSE LET i == IndexOf(order, after)
           nextIndex == IF i >= 0 THEN (i + 1) % Len(order) ELSE 0
       IN order[nextIndex + 1]

\* mutation: an empty log answers "moderator" whatever the order is
guessNextSpeaker_Moderator(order, messages) ==
  IF Len(order) = 0 THEN "moderator"
  ELSE IF Len(messages) = 0 THEN "moderator"
  ELSE nextSpeaker(order, messages[Len(messages)].who)

guessNextSpeaker(order, messages) ==
  IF Len(order) = 0 THEN "moderator"
  ELSE IF Len(messages) = 0 THEN order[1]
  ELSE nextSpeaker(order, messages[Len(messages)].who)

\* ------------------------------------------------------------------ state
VARIABLES
  turnOrder,      \* useState turnOrder
  role,           \* useState role: a traveler role or Null
  sessionConfig,  \* useState sessionConfig: null, or [ai_travelers, human_travelers]
  configFetch,    \* the loadConfig fetch: "pending" or "settled"
  msgs,           \* useState msgs: sequence of [who, content]
  input,          \* useState input: the draft
  sseRef,         \* sseRef.current: Null or the EventSource handle
  esOpen,         \* the EventSource created by the effect has not been closed
  typingMap,      \* useState typingMap: speaker -> flag, keys upserted
  finished,       \* useState finished
  typingTimer,    \* typingTimer.current: null, or the id of the last timer set
  timers,         \* timers the event loop holds: set of [id, sid, who, left]
  sending,        \* send() calls suspended at `await fetch`
  sinceEdit,      \* ms since the last edit of the draft, saturating at TYPING_DELAY
  burst,          \* history: notifications counted over the current burst of edits
  emitted,        \* the outbound calls made by the handler that ran last
  guess,          \* result of guessNextSpeaker when applied as a pure function
  sessionId,      \* params.id: Undefined or the session id of the route
  view,           \* the component: "rendered" (effects not yet run), "mounted", "unmounted"
  esStale,        \* EventSources created before the latest one and never closed
  cleanup,        \* the SSE effect has returned its cleanup function
  turnPosts,      \* history: submissions posted since currentNext last changed
  lastResponse,   \* history: how the outbound call that settled last ended
  postedAs,       \* history: the roles submissions were posted under
  owed            \* history: the roles whose last typing notification was active

vars == <<turnOrder, role, sessionConfig, configFetch, msgs, input, sseRef, esOpen,
          typingMap, finished, typingTimer, timers, sending, sinceEdit, burst,
          emitted, guess, sessionId, view, esStale, cleanup, turnPosts,
          lastResponse, postedAs, owed>>

streamVars == <<msgs, typingMap, finished, sseRef, esOpen>>
rosterVars == <<turnOrder, role, sessionConfig, configFetch>>
timerVars == <<typingTimer, timers, sinceEdit>>
lifeVars == <<sessionId, view, esStale, cleanup>>

ES_HANDLE == "es"
\* values of the route parameter id
SESSION_1 == "s1"
SESSION_2 == "s2"
\* sessionConfig is <<>> for null and <<config>> once set
NoConfig == <<>>
\* typingTimer.current before any timer was set (null); timer ids are positive
NoTimer == 0
NoBurst == [edits |-> 0, actives |-> 0, inactives |-> 0, timerInactives |-> 0,
            human |-> TRUE]

\* ------------------------------------------------------- derived values
humanRoles ==
  IF sessionConfig # NoConfig THEN sessionConfig[1].human_travelers
  ELSE FALLBACK_HUMANS

currentNext == guessNextSpeaker(turnOrder, msgs)

isMyTurn == IF role # Null THEN currentNext = role ELSE FALSE

isSelectedAi ==
  IF role = Null THEN FALSE
  ELSE IF sessionConfig # NoConfig
       THEN Includes(sessionConfig[1].ai_travelers, role)
  ELSE Includes(FALLBACK_AI, role)

\* the guard of send(): TRUE when send() goes on to post
SendProceeds ==
  ~(sessionId = Undefined \/ role = Null \/ Trim(input) = <<>> \/ ~isMyTurn
      \/ finished \/ isSelectedAi)

\* the submit button is enabled
ButtonEnabled ==
  ~(role = Null \/ finished \/ ~isMyTurn \/ Trim(input) = <<>> \/ isSelectedAi)

\* InputGate.canSubmit
canSubmit == SendProceeds

\* ------------------------------------------------------- JS values
\* a field that holds a string, or is missing
Str(s) == [t |-> "string", s |-> s]
Undef == [t |-> "undefined", s |-> <<>>]

C_PLAIN == <<"a">>
C_PADDED == <<" ">> \o CONSENSUS \o <<"\n", " ">>
C_CONTAINS == CONSENSUS \o <<"a">>
C_BLANK == <<" ">>

\* e.data of a MessageEvent: the raw text, and for an object literal its fields
Raw(r) == [raw |-> r, type |-> Undefined, who |-> Undefined, content |-> Undef,
           active |-> FALSE]
MessageData(who, content) ==
  [raw |-> "{...}", type |-> "message", who |-> who, content |-> content,
   active |-> FALSE]
TypingData(who, active) ==
  [raw |-> "{...}", type |-> "typing", who |-> who, content |-> Undef,
   active |-> active]
ObjectData(type) ==
  [raw |-> "{...}", type |-> type, who |-> Undefined, content |-> Undef,
   active |-> FALSE]

\* JSON.parse(e.data): throws on text that is not JSON
JSONParse(e) ==
  CASE e.raw = "{...}" -> [throws |-> FALSE, kind |-> "object"]
    [] e.raw = "null" -> [throws |-> FALSE, kind |-> "null"]
    [] e.raw = "7" -> [throws |-> FALSE, kind |-> "number"]
    [] OTHER -> [throws |-> TRUE, kind |-> Undefined]

\* { ...m, [k]: v }
Upsert(m, k, v) == [x \in (DOMAIN m) \cup {k} |-> IF x = k THEN v ELSE m[x]]

\* ------------------------------------------------- EventStreamConsumer
\* mutation: the connection is closed and its handle kept
HandleEnd_KeepHandle ==
  /\ finished' = TRUE
  /\ esOpen' = FALSE
  /\ UNCHANGED <<sseRef, msgs, typingMap>>

\* es.onmessage, branch e.data === "__END__"
HandleEnd ==
  /\ finished' = TRUE
  /\ esOpen' = FALSE
  /\ sseRef' = Null
  /\ UNCHANGED <<msgs, typingMap>>

\* mutation: setFinished(content.trim() === sentinel), which also resets it
HandleMessage_Assign(e) ==
  /\ msgs' = Append(msgs, [who |-> e.who, content |-> e.content])
  /\ IF e.content.t = "string"
     THEN /\ finished' = (Trim(e.content.s) = CONSENSUS)
          /\ typingMap' = Upsert(typingMap, e.who, FALSE)
     ELSE UNCHANGED <<finished, typingMap>>
  /\ UNCHANGED <<sseRef, esOpen>>

\* mutation: the content is compared without trim()
HandleMessage_NoTrim(e) ==
  /\ msgs' = Append(msgs, [who |-> e.who, content |-> e.content])
  /\ IF e.content.t = "string"
     THEN /\ finished' = (finished \/ e.content.s = CONSENSUS)
          /\ typingMap' = Upsert(typingMap, e.who, FALSE)
     ELSE UNCHANGED <<finished, typingMap>>
  /\ UNCHANGED <<sseRef, esOpen>>

\* es.onmessage, branch ev.type === "message"; ev.content.trim() throws when
\* content is no string, after setMsgs was called and before setTypingMap
HandleMessage(e) ==
  /\ msgs' = Append(msgs, [who |-> e.who, content |-> e.content])
  /\ IF e.content.t = "string"
     THEN /\ finished' = (finished \/ Trim(e.content.s) = CONSENSUS)
          /\ typingMap' = Upsert(typingMap, e.who, FALSE)
     ELSE UNCHANGED <<finished, typingMap>>
  /\ UNCHANGED <<sseRef, esOpen>>

\* mutation: the spread of the previous map is missing
HandleTyping_NoSpread(e) ==
  /\ typingMap' = Upsert(<<>>, e.who, e.active)
  /\ UNCHANGED <<msgs, finished, sseRef, esOpen>>

\* es.onmessage, branch ev.type === "typing"
HandleTyping(e) ==
  /\ typingMap' = Upsert(typingMap, e.who, e.active)
  /\ UNCHANGED <<msgs, finished, sseRef, esOpen>>

\* es.onmessage as a whole, for the payload e
EsOnMessage(e) ==
  /\ esOpen
  /\ (e.raw = "{...}" /\ e.type = "message") => Len(msgs) < MaxMsgs
  /\ IF e.raw = ""
     THEN UNCHANGED streamVars
     ELSE IF e.raw = END_MARKER
     THEN HandleEnd
     ELSE LET ev == JSONParse(e) IN
          IF ev.throws \/ ev.kind # "object"
          THEN UNCHANGED streamVars
          ELSE IF e.type = "message" THEN HandleMessage(e)
          ELSE IF e.type = "typing" THEN HandleTyping(e)
          ELSE UNCHANGED streamVars
  /\ emitted' = <<>>
  /\ UNCHANGED <<rosterVars, timerVars, input, sending, guess, lifeVars>>

\* mutation: the handle is cleared and es.close() is not called, which leaves
\* the EventSource to reconnect and deliver
EsOnError_NoClose ==
  /\ esOpen
  /\ sseRef' = Null
  /\ emitted' = <<>>
  /\ UNCHANGED <<esOpen, msgs, typingMap, finished, rosterVars, timerVars, input,
                 sending, guess, lifeVars>>

\* es.onerror
EsOnError ==
  /\ esOpen
  /\ esOpen' = FALSE
  /\ sseRef' = Null
  /\ emitted' = <<>>
  /\ UNCHANGED <<msgs, typingMap, finished, rosterVars, timerVars, input, sending,
                 guess, lifeVars>>

\* ------------------------------------------------------- outbound calls
\* POST /session/typing {session_id, who, active}; `by` names the caller
TypingCall(sid, who, active, by) ==
  [api |-> "typing", session_id |-> sid, who |-> who, active |-> active,
   text |-> <<>>, by |-> by]
\* POST /session/input {session_id, who, text}
InputCall(sid, who, text) ==
  [api |-> "input", session_id |-> sid, who |-> who, active |-> FALSE,
   text |-> text, by |-> "send"]

\* sendTyping of the render in which the session id was sid and the role r
sendTyping(sid, r, active, by) ==
  IF sid = Undefined \/ r = Null THEN <<>> ELSE <<TypingCall(sid, r, active, by)>>

Sat(n) == IF n > MaxBurst THEN MaxBurst ELSE n
CountCalls(out, active) ==
  Cardinality({k \in 1..Len(out) : out[k].api = "typing" /\ out[k].active = active})

\* clearTimeout(id)
ClearTimeout(ts, id) == {t \in ts : t.id # id}
\* the id setTimeout returns: one no pending timer has
FreshId(ts) ==
  CHOOSE n \in 1..(Cardinality(ts) + 1) :
    /\ \A t \in ts : t.id # n
    /\ \A m \in 1..(n - 1) : \E t \in ts : t.id = m

\* ------------------------------------------------ TypingSignalDebouncer
\* mutation: typing-active only when no timer is pending (leading edge only)
OnInputChange_LeadingEdge(v) ==
  LET human == role # Null /\ ~isSelectedAi
      cleared == IF typingTimer # NoTimer THEN ClearTimeout(timers, typingTimer)
                 ELSE timers
      out == IF human /\ cleared = timers THEN sendTyping(sessionId, role, TRUE, "edit")
             ELSE <<>>
      id == FreshId(cleared)
  IN /\ input' = v
     /\ timers' = IF human
                  THEN cleared \cup {[id |-> id, sid |-> sessionId, who |-> role,
                                   left |-> TYPING_DELAY]}
                  ELSE cleared
     /\ typingTimer' = IF human THEN id ELSE typingTimer
     /\ sinceEdit' = 0
     /\ emitted' = out
     /\ UNCHANGED <<streamVars, rosterVars, sending, guess, lifeVars>>

\* mutation: the pending timer is not cleared
OnInputChange_NoClear(v) ==
  LET human == role # Null /\ ~isSelectedAi
      out == IF human THEN sendTyping(sessionId, role, TRUE, "edit") ELSE <<>>
      id == FreshId(timers)
  IN /\ input' = v
     /\ timers' = IF human
                  THEN timers \cup {[id |-> id, sid |-> sessionId, who |-> role,
                                   left |-> TYPING_DELAY]}
                  ELSE timers
     /\ typingTimer' = IF human THEN id ELSE typingTimer
     /\ sinceEdit' = 0
     /\ emitted' = out
     /\ UNCHANGED <<streamVars, rosterVars, sending, guess, lifeVars>>

\* mutation: the id setTimeout returns is not stored in typingTimer.current
OnInputChange_IdNotKept(v) ==
  LET human == role # Null /\ ~isSelectedAi
      cleared == IF typingTimer # NoTimer THEN ClearTimeout(timers, typingTimer)
                 ELSE timers
      out == IF human THEN sendTyping(sessionId, role, TRUE, "edit") ELSE <<>>
      id == FreshId(cleared)
  IN /\ input' = v
     /\ timers' = IF human
                  THEN cleared \cup {[id |-> id, sid |-> sessionId, who |-> role,
                                   left |-> TYPING_DELAY]}
                  ELSE cleared
     /\ typingTimer' = typingTimer
     /\ sinceEdit' = 0
     /\ emitted' = out
     /\ UNCHANGED <<streamVars, rosterVars, sending, guess, lifeVars>>

\* onInputChange with el.value = v
OnInputChange(v) ==
  LET human == role # Null /\ ~isSelectedAi
      cleared == IF typingTimer # NoTimer THEN ClearTimeout(timers, typingTimer)
                 ELSE timers
      out == IF human THEN sendTyping(sessionId, role, TRUE, "edit") ELSE <<>>
      id == FreshId(cleared)
  IN /\ input' = v
     /\ timers' = IF human
                  THEN cleared \cup {[id |-> id, sid |-> sessionId, who |-> role,
                                   left |-> TYPING_DELAY]}
                  ELSE cleared
     /\ typingTimer' = IF human THEN id ELSE typingTimer
     /\ sinceEdit' = 0
     /\ emitted' = out
     /\ UNCHANGED <<streamVars, rosterVars, sending, guess, lifeVars>>

\* the callback of setTimeout(() => sendTyping(false), 800), for the timer t
TimerFire(t) ==
  LET out == sendTyping(t.sid, t.who, FALSE, "timer") IN
  /\ t \in timers
  /\ t.left = 0
  /\ timers' = timers \ {t}
  /\ emitted' = out
  /\ UNCHANGED <<streamVars, rosterVars, input, typingTimer, sinceEdit, sending,
                 guess, lifeVars>>

\* mutation: the blur leaves the notification to a pending timer
OnBlur_DefersToTimer ==
  LET out == IF timers = {} THEN sendTyping(sessionId, role, FALSE, "blur")
             ELSE <<>> IN
  /\ emitted' = out
  /\ UNCHANGED <<streamVars, rosterVars, input, typingTimer, timers, sinceEdit,
                 sending, guess, lifeVars>>

\* textarea onBlur
OnBlur ==
  LET out == sendTyping(sessionId, role, FALSE, "blur") IN
  /\ emitted' = out
  /\ UNCHANGED <<streamVars, rosterVars, input, typingTimer, timers, sinceEdit,
                 sending, guess, lifeVars>>

\* the fetch of the typing call the last handler made rejects, or is answered
\* with any status: `.catch(() => {})`, and nothing reads the response
TypingSettled ==
  /\ \E k \in 1..Len(emitted) : emitted[k].api = "typing"
  /\ emitted' = <<>>
  /\ UNCHANGED <<streamVars, rosterVars, timerVars, input, sending, guess,
                 lifeVars>>

\* Tick ms pass; a timer whose delay has run out may fire from then on
TimePasses ==
  /\ sinceEdit' = IF sinceEdit + Tick > TYPING_DELAY THEN TYPING_DELAY
                  ELSE sinceEdit + Tick
  /\ timers' = {[t EXCEPT !.left = IF @ > Tick THEN @ - Tick ELSE 0] : t \in timers}
  /\ UNCHANGED <<streamVars, rosterVars, input, typingTimer, sending, emitted,
                 guess, lifeVars>>

\* ------------------------------------------------------------ RoleRoster
\* the updater of the role effect: prev kept when it is a traveler role
RoleDefault(prev, hr) ==
  IF prev # Null /\ Includes(TRAVELER_ROLES, prev) THEN prev
  ELSE IF Len(hr) > 0 THEN hr[1]
  ELSE TRAVELER_ROLES[1]

\* mutation: the filter keeps the two human roles instead of dropping them
NotFallbackHuman_Keeps(t) == Includes(FALLBACK_HUMANS, t)

NotFallbackHuman(t) == ~Includes(FALLBACK_HUMANS, t)
FallbackConfig ==
  [ai_travelers |-> SelectSeq(TRAVELER_ROLES, NotFallbackHuman),
   human_travelers |-> FALLBACK_HUMANS]

\* loadConfig: the response is ok and its body is data; then the role effect
LoadConfigOk(data) ==
  /\ configFetch = "pending"
  /\ configFetch' = "settled"
  /\ sessionConfig' = <<data>>
  /\ turnOrder' = DEFAULT_TURN_ORDER
  /\ role' = RoleDefault(role, data.human_travelers)
  /\ emitted' = <<>>
  /\ UNCHANGED <<streamVars, timerVars, input, sending, guess, lifeVars>>

\* loadConfig: fetch rejects, the status is not ok, or the body does not parse
LoadConfigFail ==
  /\ configFetch = "pending"
  /\ configFetch' = "settled"
  /\ sessionConfig' = <<FallbackConfig>>
  /\ turnOrder' = DEFAULT_TURN_ORDER
  /\ role' = RoleDefault(role, FallbackConfig.human_travelers)
  /\ emitted' = <<>>
  /\ UNCHANGED <<streamVars, timerVars, input, sending, guess, lifeVars>>

\* the role <select> onChange with a traveler role
SelectRole(r) ==
  /\ role' = r
  /\ emitted' = <<>>
  /\ UNCHANGED <<turnOrder, sessionConfig, configFetch, streamVars, timerVars,
                 input, sending, guess, lifeVars>>

\* ------------------------------------------------------------- InputGate
\* mutation: the draft is posted as typed
Send_Untrimmed ==
  /\ SendProceeds => sending < MaxInflight
  /\ IF SendProceeds
     THEN /\ emitted' = <<InputCall(sessionId, role, input)>>
          /\ sending' = sending + 1
     ELSE /\ emitted' = <<>>
          /\ sending' = sending
  /\ UNCHANGED <<streamVars, rosterVars, timerVars, input, guess, lifeVars>>

\* mutation: the submit appends its own message to the log (optimistic echo)
Send_EchoesLocally ==
  /\ SendProceeds => sending < MaxInflight /\ Len(msgs) < MaxMsgs
  /\ IF SendProceeds
     THEN /\ emitted' = <<InputCall(sessionId, role, Trim(input))>>
          /\ sending' = sending + 1
          /\ msgs' = Append(msgs, [who |-> role, content |-> Str(Trim(input))])
     ELSE /\ emitted' = <<>>
          /\ sending' = sending
          /\ msgs' = msgs
  /\ UNCHANGED <<typingMap, finished, sseRef, esOpen, rosterVars, timerVars, input,
                 guess, lifeVars>>

\* send(), up to `await fetch`
Send ==
  /\ SendProceeds => sending < MaxInflight
  /\ IF SendProceeds
     THEN /\ emitted' = <<InputCall(sessionId, role, Trim(input))>>
          /\ sending' = sending + 1
     ELSE /\ emitted' = <<>>
          /\ sending' = sending
  /\ UNCHANGED <<streamVars, rosterVars, timerVars, input, guess, lifeVars>>

\* send(), after `await fetch` resolved: setInput("")
SendResolved ==
  /\ sending > 0
  /\ sending' = sending - 1
  /\ input' = <<>>
  /\ emitted' = <<>>
  /\ UNCHANGED <<streamVars, rosterVars, timerVars, guess, lifeVars>>

\* send(), `await fetch` rejected: the rest of send() does not run
SendRejected ==
  /\ sending > 0
  /\ sending' = sending - 1
  /\ emitted' = <<>>
  /\ UNCHANGED <<streamVars, rosterVars, timerVars, input, guess, lifeVars>>

\* ------------------------------------------------- the effects' lifecycle
\* what the SSE effect and its cleanup read and write
Conn == [sseRef |-> sseRef, esOpen |-> esOpen, esStale |-> esStale,
         cleanup |-> cleanup]
SetConn(c) ==
  /\ sseRef' = c.sseRef
  /\ esOpen' = c.esOpen
  /\ esStale' = c.esStale
  /\ cleanup' = c.cleanup

\* mutation: the cleanup clears the handle and leaves the EventSource open
SseCleanup_NoClose(c) ==
  IF c.cleanup THEN [c EXCEPT !.sseRef = Null, !.cleanup = FALSE] ELSE c

\* mutation: the cleanup does nothing once the session is finished
SseCleanup_UnlessFinished(c) ==
  IF c.cleanup /\ ~finished
  THEN [c EXCEPT !.esOpen = FALSE, !.sseRef = Null, !.cleanup = FALSE]
  ELSE [c EXCEPT !.cleanup = FALSE]

\* the cleanup the SSE effect returned, if it returned one: es.close() and
\* sseRef.current = null
SseCleanup(c) ==
  IF c.cleanup
  THEN [c EXCEPT !.esOpen = FALSE, !.sseRef = Null, !.cleanup = FALSE]
  ELSE c

\* the body of the SSE effect, run with sessionId = id
SseEffect(c, id) ==
  IF id = Undefined \/ c.sseRef # Null
  THEN [c EXCEPT !.cleanup = FALSE]
  ELSE [sseRef |-> ES_HANDLE, esOpen |-> TRUE,
        esStale |-> c.esStale + (IF c.esOpen THEN 1 ELSE 0),
        cleanup |-> TRUE]

\* the loadConfig effect run with sessionId = id, the fetch of the run before
\* it being aborted
ConfigEffect(id) ==
  IF id # Undefined THEN "pending"
  ELSE IF configFetch = "pending" THEN "idle" ELSE configFetch

\* the effects of the first commit: loadConfig, the role default, the stream
Mount ==
  /\ view = "rendered"
  /\ view' = "mounted"
  /\ configFetch' = ConfigEffect(sessionId)
  /\ role' = RoleDefault(role, humanRoles)
  /\ SetConn(SseEffect(Conn, sessionId))
  /\ emitted' = <<>>
  /\ UNCHANGED <<turnOrder, sessionConfig, msgs, typingMap, finished, timerVars,
                 input, sending, guess, sessionId>>

\* params.id changes to id: the cleanups of the effects keyed on sessionId run,
\* then the effects run again
SessionIdChange(id) ==
  /\ view = "mounted"
  /\ id # sessionId
  /\ sessionId' = id
  /\ configFetch' = ConfigEffect(id)
  /\ SetConn(SseEffect(SseCleanup(Conn), id))
  /\ emitted' = <<>>
  /\ UNCHANGED <<turnOrder, role, sessionConfig, msgs, typingMap, finished,
                 timerVars, input, sending, guess, view>>

\* the component unmounts: every cleanup runs
Teardown ==
  /\ view = "mounted"
  /\ view' = "unmounted"
  /\ configFetch' = ConfigEffect(Undefined)
  /\ SetConn(SseCleanup(Conn))
  /\ emitted' = <<>>
  /\ UNCHANGED <<turnOrder, role, sessionConfig, msgs, typingMap, finished,
                 timerVars, input, sending, guess, sessionId>>

\* ------------------------------------------------------------- the view
\* after the first render and its effects: the stream is connected, the
\* config fetch is outstanding, the role effect has picked humanRoles[0]
InitView ==
  /\ role = RoleDefault(Null, FALLBACK_HUMANS)
  /\ sessionConfig = NoConfig
  /\ configFetch = "pending"
  /\ input = <<>>
  /\ sseRef = ES_HANDLE
  /\ esOpen = TRUE
  /\ typingMap = <<>>
  /\ finished = FALSE
  /\ typingTimer = NoTimer
  /\ timers = {}
  /\ sending = 0
  /\ sinceEdit = TYPING_DELAY
  /\ burst = NoBurst
  /\ emitted = <<>>
  /\ sessionId = SESSION_1
  /\ view = "mounted"
  /\ esStale = 0
  /\ cleanup = TRUE
  /\ turnPosts = 0
  /\ lastResponse = "none"
  /\ postedAs = {}
  /\ owed = {}

Init ==
  /\ InitView
  /\ turnOrder = DEFAULT_TURN_ORDER
  /\ msgs = <<>>
  /\ guess = Null

\* ---------------------------------------------------------------- inputs
Speakers == Range(DEFAULT_TURN_ORDER)
D_PADDED == <<" ">> \o C_PLAIN \o <<"\n">>
Drafts == {<<>>, C_BLANK, D_PADDED}
\* bodies of an ok response: a partition other than the fallback, and two sets
\* that leave traveler_B out
ServerConfigs ==
  { [ai_travelers |-> <<"traveler_B">>,
     human_travelers |-> <<"traveler_A", "traveler_C", "traveler_D">>],
    [ai_travelers |-> <<"traveler_A">>,
     human_travelers |-> <<"traveler_C", "traveler_D">>] }
\* payloads of the whole view: enough to move the turn and to end the session
CorePayloads ==
  {Raw(END_MARKER)}
  \cup {MessageData("moderator", Str(C_PLAIN))}
  \cup {MessageData("traveler_A", Str(c)) : c \in {C_PLAIN, CONSENSUS}}
  \cup {TypingData("traveler_A", TRUE)}
\* payloads of the stream consumer alone: every shape es.onmessage tells apart
StreamSpeakers == {"moderator", "traveler_A", "observer"}
StreamContents ==
  {Str(c) : c \in {C_PLAIN, CONSENSUS, C_PADDED, C_CONTAINS}} \cup {Undef}
StreamPayloads ==
  {Raw(r) : r \in {"", END_MARKER, "not json", "null", "7"}}
  \cup {ObjectData(t) : t \in {END_MARKER, Undefined}}
  \cup {MessageData(w, c) : w \in StreamSpeakers, c \in StreamContents}
  \cup {TypingData(w, a) : w \in StreamSpeakers, a \in BOOLEAN}

\* ------------------------------------------------ the view, all handlers
Next ==
  \/ \E e \in CorePayloads : EsOnMessage(e)
  \/ EsOnError
  \/ \E v \in Drafts : OnInputChange(v)
  \/ \E t \in timers : TimerFire(t)
  \/ OnBlur
  \/ TimePasses
  \/ \E data \in ServerConfigs : LoadConfigOk(data)
  \/ LoadConfigFail
  \/ \E r \in Range(TRAVELER_ROLES) : SelectRole(r)
  \/ Send
  \/ SendResolved
  \/ SendRejected

Spec == Init /\ [][Next /\ UNCHANGED <<burst, guess, turnPosts, lastResponse, postedAs, owed>>]_vars

\* ----------------- the input gate: the handlers that write what it reads
NextGate ==
  \/ \E e \in CorePayloads : EsOnMessage(e)
  \/ EsOnError
  \/ \E v \in Drafts : OnInputChange(v)
  \/ \E data \in ServerConfigs : LoadConfigOk(data)
  \/ LoadConfigFail
  \/ \E r \in Range(TRAVELER_ROLES) : SelectRole(r)
  \/ Send
  \/ SendResolved
  \/ SendRejected

SpecGate == Init /\ [][NextGate /\ UNCHANGED <<burst, guess, turnPosts, lastResponse, postedAs, owed>>]_vars

\* ------------------------ the input gate, with the posts of each turn
CountInput(out) == Cardinality({k \in 1..Len(out) : out[k].api = "input"})
\* a turn: the steps between two changes of currentNext
RecordPost ==
  turnPosts' = IF turnPosts + CountInput(emitted') > MaxPosts THEN MaxPosts
               ELSE turnPosts + CountInput(emitted')
RecordTurn ==
  turnPosts' = IF currentNext' # currentNext THEN 0 ELSE turnPosts

\* the payloads that move the turn or end the session
TurnPayloads == {e \in CorePayloads : e.type # "typing"}

NextSubmit ==
  \/ (\E e \in TurnPayloads : EsOnMessage(e)) /\ RecordTurn
  \/ EsOnError /\ RecordTurn
  \/ (\E v \in Drafts : OnInputChange(v)) /\ RecordTurn
  \/ (\E data \in ServerConfigs : LoadConfigOk(data)) /\ RecordTurn
  \/ LoadConfigFail /\ RecordTurn
  \/ (\E r \in Range(TRAVELER_ROLES) : SelectRole(r)) /\ RecordTurn
  \/ Send /\ RecordPost
  \/ SendResolved /\ RecordTurn
  \/ SendRejected /\ RecordTurn

SpecSubmit == Init /\ [][NextSubmit /\ UNCHANGED <<burst, guess, lastResponse, postedAs, owed>>]_vars

\* ------------------------------------- the stream consumer, every payload
NextStream ==
  \/ \E e \in StreamPayloads : EsOnMessage(e)
  \/ EsOnError

SpecStream == Init /\ [][NextStream /\ UNCHANGED <<burst, guess, turnPosts, lastResponse, postedAs, owed>>]_vars

\* --------------------- the local handlers, with the history of the burst
\* a burst: edits each less than TYPING_DELAY ms after the one before
RecordEdit ==
  LET fresh == burst.edits = 0 \/ sinceEdit >= TYPING_DELAY
      b == IF fresh THEN NoBurst ELSE burst
  IN burst' = [b EXCEPT !.edits = Sat(@ + 1),
                        !.actives = Sat(@ + CountCalls(emitted', TRUE)),
                        !.human = @ /\ role # Null /\ ~isSelectedAi]

RecordTimer ==
  burst' = [burst EXCEPT !.inactives = Sat(@ + CountCalls(emitted', FALSE)),
                         !.timerInactives = Sat(@ + CountCalls(emitted', FALSE))]

RecordBlur ==
  burst' = IF burst.edits = 0 THEN burst
           ELSE [burst EXCEPT !.inactives = Sat(@ + CountCalls(emitted', FALSE))]

NextDebounce ==
  \/ (\E v \in Drafts : OnInputChange(v)) /\ RecordEdit
  \/ (\E t \in timers : TimerFire(t)) /\ RecordTimer
  \/ OnBlur /\ RecordBlur
  \/ TimePasses /\ UNCHANGED burst
  \/ (\E data \in ServerConfigs : LoadConfigOk(data)) /\ UNCHANGED burst
  \/ LoadConfigFail /\ UNCHANGED burst
  \/ (\E r \in Range(TRAVELER_ROLES) : SelectRole(r)) /\ UNCHANGED burst
  \/ Send /\ UNCHANGED burst
  \/ SendResolved /\ UNCHANGED burst
  \/ SendRejected /\ UNCHANGED burst

SpecDebounce == Init /\ [][NextDebounce /\ UNCHANGED <<guess, turnPosts, lastResponse, postedAs, owed>>]_vars

\* ------------------- the connection over the life of the component
\* after the first render, before its effects
InitLife ==
  /\ role = Null
  /\ sessionConfig = NoConfig
  /\ configFetch = "idle"
  /\ input = <<>>
  /\ sseRef = Null
  /\ esOpen = FALSE
  /\ typingMap = <<>>
  /\ finished = FALSE
  /\ typingTimer = NoTimer
  /\ timers = {}
  /\ sending = 0
  /\ sinceEdit = TYPING_DELAY
  /\ burst = NoBurst
  /\ emitted = <<>>
  /\ sessionId \in {Undefined, SESSION_1}
  /\ view = "rendered"
  /\ esStale = 0
  /\ cleanup = FALSE
  /\ turnPosts = 0
  /\ lastResponse = "none"
  /\ postedAs = {}
  /\ owed = {}
  /\ turnOrder = DEFAULT_TURN_ORDER
  /\ msgs = <<>>
  /\ guess = Null

SessionIds == {Undefined, SESSION_1, SESSION_2}

NextLife ==
  \/ Mount
  \/ \E id \in SessionIds : SessionIdChange(id)
  \/ Teardown
  \/ \E e \in CorePayloads : EsOnMessage(e)
  \/ EsOnError
  \/ \E data \in ServerConfigs : LoadConfigOk(data)
  \/ LoadConfigFail
  \/ \E r \in Range(TRAVELER_ROLES) : SelectRole(r)

SpecLife == InitLife /\ [][NextLife /\ UNCHANGED <<burst, guess, turnPosts, lastResponse, postedAs, owed>>]_vars

\* --------------- every trigger of the view, stream and local, side by side
\* an empty and a non-blank draft; an automated and a human role by default
OwnerDrafts == {<<>>, D_PADDED}
OwnerRoles == {"traveler_A", "traveler_B"}

NextOwner ==
  \/ \E e \in CorePayloads : EsOnMessage(e)
  \/ EsOnError
  \/ \E v \in OwnerDrafts : OnInputChange(v)
  \/ \E t \in timers : TimerFire(t)
  \/ OnBlur
  \/ TimePasses
  \/ \E data \in ServerConfigs : LoadConfigOk(data)
  \/ LoadConfigFail
  \/ \E r \in OwnerRoles : SelectRole(r)
  \/ Send
  \/ SendResolved
  \/ SendRejected

SpecOwner == Init /\ [][NextOwner /\ UNCHANGED <<burst, guess, turnPosts, lastResponse, postedAs, owed>>]_vars

\* ------------------- every trigger, with the end of each outbound call
\* fetch resolves with a response (ok or not, the code reads neither) or
\* rejects; lastResponse records which
Responded(how) == lastResponse' = how

NextOutcome ==
  \/ (\E e \in CorePayloads : EsOnMessage(e)) /\ Responded("none")
  \/ EsOnError /\ Responded("none")
  \/ (\E v \in OwnerDrafts : OnInputChange(v)) /\ Responded("none")
  \/ (\E t \in timers : TimerFire(t)) /\ Responded("none")
  \/ OnBlur /\ Responded("none")
  \/ TimePasses /\ Responded("none")
  \/ (\E data \in ServerConfigs : LoadConfigOk(data)) /\ Responded("none")
  \/ LoadConfigFail /\ Responded("none")
  \/ (\E r \in OwnerRoles : SelectRole(r)) /\ Responded("none")
  \/ Send /\ Responded("none")
  \/ SendResolved /\ Responded("input ok")
  \/ SendResolved /\ Responded("input not ok")
  \/ SendRejected /\ Responded("input rejected")
  \/ TypingSettled /\ Responded("typing ok")
  \/ TypingSettled /\ Responded("typing failed")

SpecOutcome ==
  Init /\ [][NextOutcome /\ UNCHANGED <<burst, guess, turnPosts, postedAs, owed>>]_vars

\* ------------- the input gate, with the roles submissions were posted under
RecordPostedAs ==
  postedAs' = postedAs \cup {emitted'[k].who : k \in {j \in 1..Len(emitted') :
                                                     emitted'[j].api = "input"}}

NextRace ==
  \/ (\E e \in CorePayloads : EsOnMessage(e)) /\ UNCHANGED postedAs
  \/ EsOnError /\ UNCHANGED postedAs
  \/ (\E v \in Drafts : OnInputChange(v)) /\ UNCHANGED postedAs
  \/ (\E data \in ServerConfigs : LoadConfigOk(data)) /\ UNCHANGED postedAs
  \/ LoadConfigFail /\ UNCHANGED postedAs
  \/ (\E r \in Range(TRAVELER_ROLES) : SelectRole(r)) /\ UNCHANGED postedAs
  \/ Send /\ RecordPostedAs
  \/ SendResolved /\ UNCHANGED postedAs
  \/ SendRejected /\ UNCHANGED postedAs

SpecRace ==
  Init /\ [][NextRace /\ UNCHANGED <<burst, guess, turnPosts, lastResponse, owed>>]_vars

\* ------------- the typing notifications, with the roles left signalled
TypingWho(out, active) ==
  {out[k].who : k \in {j \in 1..Len(out) : out[j].api = "typing"
                                            /\ out[j].active = active}}
\* a role is owed an inactive notification from an active one until the next
\* inactive one for it
RecordOwed ==
  owed' = (owed \ TypingWho(emitted', FALSE)) \cup TypingWho(emitted', TRUE)

NextTyping ==
  \/ (\E v \in Drafts : OnInputChange(v)) /\ RecordOwed
  \/ (\E t \in timers : TimerFire(t)) /\ RecordOwed
  \/ OnBlur /\ RecordOwed
  \/ TimePasses /\ UNCHANGED owed
  \/ (\E data \in ServerConfigs : LoadConfigOk(data)) /\ UNCHANGED owed
  \/ LoadConfigFail /\ UNCHANGED owed
  \/ (\E r \in Range(TRAVELER_ROLES) : SelectRole(r)) /\ UNCHANGED owed

SpecTyping ==
  Init /\ [][NextTyping
             /\ UNCHANGED <<burst, guess, turnPosts, lastResponse, postedAs>>]_vars

\* ------------------------------------- the turn-order functions, applied
RECURSIVE SeqsUpTo(_, _)
SeqsUpTo(S, n) ==
  IF n = 0 THEN {<<>>}
  ELSE LET shorter == SeqsUpTo(S, n - 1)
       IN shorter \cup {Append(q, x) : q \in shorter, x \in S}
IsInjective(q) == \A j, k \in 1..Len(q) : q[j] = q[k] => j = k
\* turn orders: each speaker at most once
Orders ==
  {DEFAULT_TURN_ORDER} \cup {q \in SeqsUpTo(Speakers, MaxOrderLen) : IsInjective(q)}
LogSpeakers == Speakers \cup {"observer"}
LogOf(q) == [k \in 1..Len(q) |-> [who |-> q[k], content |-> Str(C_PLAIN)]]
Logs == {LogOf(q) : q \in SeqsUpTo(LogSpeakers, MaxLogLen)}

InitTurn ==
  /\ InitView
  /\ turnOrder \in Orders
  /\ msgs \in Logs
  /\ guess = Null

ApplyGuess ==
  /\ guess = Null
  /\ guess' = guessNextSpeaker(turnOrder, msgs)
  /\ UNCHANGED <<turnOrder, role, sessionConfig, configFetch, msgs, input, sseRef,
                 esOpen, typingMap, finished, typingTimer, timers, sending,
                 sinceEdit, burst, emitted, lifeVars, turnPosts, lastResponse,
                 postedAs, owed>>

SpecTurn == InitTurn /\ [][ApplyGuess]_vars

\* ================================================================ claims
Last(q) == q[Len(q)]
\* s is the sentinel with nothing but whitespace before and after it
IsPaddedSentinel(s) ==
  \E k \in 1..Len(s) :
    /\ k + Len(CONSENSUS) - 1 <= Len(s)
    /\ SubSeq(s, k, k + Len(CONSENSUS) - 1) = CONSENSUS
    /\ \A j \in 1..Len(s) : (j < k \/ j > k + Len(CONSENSUS) - 1) => IsSpace(s[j])
NotTyping(m, w) == w \in DOMAIN m => ~m[w]

\* C1: once finished is set no step clears it, and in every state reached with
\* finished set canSubmit is false, whatever role, turn and draft are.
C1_FinishedAbsorbing ==
  [][(finished => finished') /\ (finished' => ~canSubmit')]_vars

\* C1 witness: finished by the sentinel with the stream still open, a later
\* message has moved the turn to the human local role, the draft is not blank.
C1_Witness ==
  /\ finished /\ esOpen
  /\ Len(msgs) = 2 /\ msgs[1].content = Str(CONSENSUS)
  /\ role # Null /\ currentNext = role /\ ~isSelectedAi
  /\ Trim(input) # <<>>

\* the five conditions of C2
Eligible5 ==
  /\ role # Null
  /\ role \in Range(humanRoles)
  /\ ~finished
  /\ currentNext = role
  /\ Trim(input) # <<>>

\* C2: send() posts, and the button is enabled, exactly when a role is set, the
\* role is in the human partition, the phase is ACTIVE, the next speaker is
\* the role and the trimmed draft is not empty.
C2_EligibleIffFive ==
  (SendProceeds <=> Eligible5) /\ (ButtonEnabled <=> Eligible5)

\* C3: after a non-empty log whose last speaker is at index i of the order, the
\* guess is the element at (i+1) mod length, and every log with the same last
\* speaker gets the same guess.
C3_NextAfterLast ==
  (guess # Null /\ Len(msgs) > 0) =>
    /\ \A i \in 0..(Len(turnOrder) - 1) :
         turnOrder[i + 1] = Last(msgs).who =>
           guess = turnOrder[((i + 1) % Len(turnOrder)) + 1]
    /\ Last(msgs).who \in Range(turnOrder) =>
         \A other \in Logs :
           (Len(other) > 0 /\ Last(other).who = Last(msgs).who) =>
             guessNextSpeaker(turnOrder, other) = guess

\* C3 witness: the default order, a log of two ending with the last traveler,
\* and the guess has wrapped around to the moderator.
C3_Witness ==
  /\ guess = "moderator"
  /\ turnOrder = DEFAULT_TURN_ORDER
  /\ Len(msgs) = 2 /\ Last(msgs).who = "traveler_D"

\* C4: with a non-empty order, the guess is the first element of the order when
\* the log is empty and when the last speaker is not in the order.
C4_FirstByDefault ==
  (guess # Null /\ Len(turnOrder) > 0
     /\ (Len(msgs) = 0 \/ Last(msgs).who \notin Range(turnOrder)))
  => guess = turnOrder[1]

\* C4 witness: an order that does not start with the moderator, a last speaker
\* outside it, and the guess is its first element.
C4_Witness ==
  /\ guess # Null /\ Len(turnOrder) > 1 /\ turnOrder[1] # "moderator"
  /\ Len(msgs) > 0 /\ Last(msgs).who = "observer"
  /\ guess = turnOrder[1]

\* C5: a step that appends a message sets finished when the content is the
\* sentinel between whitespace only, and leaves finished as it was otherwise.
C5_SentinelFinishes ==
  [][Len(msgs') = Len(msgs) + 1 =>
       LET c == Last(msgs').content IN
       IF c.t = "string" /\ IsPaddedSentinel(c.s)
       THEN finished'
       ELSE finished' = finished]_vars

\* C5 witness: finished with the stream still open (no end marker), the last
\* message being the sentinel inside whitespace, after a message that only
\* contains the sentinel.
C5_Witness ==
  /\ finished /\ esOpen
  /\ Len(msgs) = 2
  /\ msgs[1].content = Str(C_CONTAINS)
  /\ msgs[2].content = Str(C_PADDED)

\* C6: the handler of the bare "__END__" payload sets finished, closes the
\* connection and clears its handle, and leaves the log and the typing map.
C6_EndMarker ==
  [][EsOnMessage(Raw(END_MARKER)) =>
       /\ finished' /\ ~esOpen' /\ sseRef' = Null
       /\ msgs' = msgs /\ typingMap' = typingMap]_vars

\* C6 witness: finished and released with a log that holds no sentinel (so the
\* end marker did it), the log and a raised typing flag still there.
C6_Witness ==
  /\ finished /\ ~esOpen /\ sseRef = Null
  /\ Len(msgs) = 2
  /\ \A k \in 1..Len(msgs) : msgs[k].content = Str(C_PLAIN)
  /\ "observer" \in DOMAIN typingMap /\ typingMap["observer"]

\* C7: after a step that appends a message of R to the log, R is not typing.
C7_MessageClearsTyping ==
  [][Len(msgs') = Len(msgs) + 1 => NotTyping(typingMap', Last(msgs').who)]_vars

\* C8: the handler of a typing event for S with flag a sets typingMap[S] to a,
\* keeps every other entry, and changes nothing else of the view.
C8_TypingFrame ==
  [][\A w \in StreamSpeakers, a \in BOOLEAN :
       EsOnMessage(TypingData(w, a)) =>
         /\ DOMAIN typingMap' = DOMAIN typingMap \cup {w}
         /\ typingMap'[w] = a
         /\ \A k \in DOMAIN typingMap \ {w} : typingMap'[k] = typingMap[k]
         /\ currentNext' = currentNext
         /\ UNCHANGED <<msgs, finished, sseRef, esOpen, turnOrder, role,
                        sessionConfig, configFetch, input, typingTimer, timers,
                        sending, sinceEdit>>]_vars

\* C8 witness: a typing event has raised one flag while another speaker's
\* entry and the log are in place and the session is active.
C8_Witness ==
  /\ ~finished /\ esOpen /\ Len(msgs) = 1
  /\ DOMAIN typingMap = {"traveler_A", "observer"}
  /\ typingMap["observer"] /\ ~typingMap["traveler_A"]

\* C9 as stated: a burst of edits under a human role has produced exactly one
\* typing-active notification.
C9_OneActivePerBurst ==
  (burst.human /\ burst.edits >= 1) => burst.actives = 1

\* C9 amended: a burst of N edits under a human role has produced N
\* typing-active notifications, one by each edit.
C9_ActivePerEdit ==
  burst.human => burst.actives = burst.edits

\* C9 witness: the second edit of a burst under a human role has just run.
C9_Witness ==
  /\ burst.human /\ burst.edits = 2 /\ burst.actives = 2
  /\ sinceEdit = 0 /\ emitted # <<>>

\* C10 as stated: a burst under a human role has produced at most one
\* typing-inactive notification, and none before TYPING_DELAY ms have passed
\* since the last edit.
C10_OneInactiveAfterDelay ==
  burst.human =>
    /\ burst.inactives <= 1
    /\ burst.inactives >= 1 => sinceEdit >= TYPING_DELAY

\* C10 amended: the debounce timer has produced at most one typing-inactive
\* notification for a burst under a human role, none before TYPING_DELAY ms
\* have passed since the last edit, and once it has no timer is left pending.
C10_TimerInactiveAfterDelay ==
  burst.human =>
    /\ burst.timerInactives <= 1
    /\ burst.timerInactives >= 1 => (sinceEdit >= TYPING_DELAY /\ timers = {})
    /\ \A t \in timers : t.left + sinceEdit >= TYPING_DELAY

\* C10 witness: a burst of two edits whose timer has fired, TYPING_DELAY ms
\* after the last edit.
C10_Witness ==
  /\ burst.human /\ burst.edits = 2 /\ burst.timerInactives = 1
  /\ sinceEdit >= TYPING_DELAY
  /\ emitted # <<>> /\ emitted[1].by = "timer" /\ ~emitted[1].active

\* EventSources that are open
OpenConnections == esStale + (IF esOpen THEN 1 ELSE 0)

\* C11: at most one event-stream connection is open, and none is open while
\* no handle is held, so that the effect, which creates a connection only when
\* no handle is held, never opens a second one beside an open one.
C11_AtMostOneConnection ==
  /\ OpenConnections <= 1
  /\ sseRef = Null => OpenConnections = 0

\* C11 witness: a connection is open for the second session id after the end
\* marker closed the connection of the first one.
C11_Witness ==
  /\ view = "mounted" /\ sessionId = SESSION_2
  /\ esOpen /\ sseRef = ES_HANDLE /\ OpenConnections = 1
  /\ finished /\ msgs = <<>>

\* C12: the step in which the configuration fetch fails resolves the roles to
\* humanRoles = {traveler_B, traveler_D} and automated roles = {traveler_A,
\* traveler_C}, whatever the state was, and leaves the default turn order.
C12_FallbackOnFailure ==
  [][LoadConfigFail =>
       /\ sessionConfig' # NoConfig
       /\ Range(humanRoles') = {"traveler_B", "traveler_D"}
       /\ Range(sessionConfig'[1].ai_travelers) = {"traveler_A", "traveler_C"}
       /\ turnOrder' = DEFAULT_TURN_ORDER]_vars

\* C12 witness: the fetch has failed after the stream delivered a message and
\* the user chose another role; the fallback assignment is in place.
C12_Witness ==
  /\ configFetch = "settled" /\ sessionConfig # NoConfig
  /\ sessionConfig[1].human_travelers = <<"traveler_B", "traveler_D">>
  /\ sessionConfig[1].ai_travelers = <<"traveler_A", "traveler_C">>
  /\ Len(msgs) > 0 /\ role = "traveler_C"

\* payloads that are none of the known shapes
MalformedPayloads ==
  {Raw(r) : r \in {"not json", "null", "7"}}
  \cup {ObjectData(t) : t \in {END_MARKER, Undefined}}
  \cup {MessageData(w, Undef) : w \in StreamSpeakers}

\* C13: the handler of a payload that is none of the known shapes leaves the
\* message log, the typing map, the phase and the connection as they were.
C13_MalformedDiscarded ==
  [][\A e \in MalformedPayloads :
       EsOnMessage(e) => UNCHANGED <<msgs, typingMap, finished, sseRef, esOpen>>]_vars

\* C14: the transport-error handler releases the connection and leaves the
\* phase, the log and the typing map as they were; and while the connection is
\* released, every step of the same session view (same session id, no mount or
\* teardown) leaves it released and leaves the log and the typing map alone.
C14_ErrorReleasesForGood ==
  [][/\ EsOnError =>
          /\ ~esOpen' /\ sseRef' = Null
          /\ finished' = finished /\ msgs' = msgs /\ typingMap' = typingMap
     /\ (~esOpen /\ sseRef = Null /\ sessionId' = sessionId /\ view' = view) =>
          /\ ~esOpen' /\ sseRef' = Null
          /\ msgs' = msgs /\ typingMap' = typingMap]_vars

\* C14 witness: a mounted view of a session whose connection was released with
\* the phase still ACTIVE (so by a transport error), holding the log and the
\* raised typing flag it had, the role having been changed since.
C14_Witness ==
  /\ view = "mounted" /\ sessionId = SESSION_1
  /\ ~esOpen /\ sseRef = Null /\ ~finished
  /\ Len(msgs) = 1
  /\ "traveler_A" \in DOMAIN typingMap /\ typingMap["traveler_A"]
  /\ role = "traveler_D"

\* C15: between two consecutive changes of the computed next speaker the
\* client has posted at most one message submission.
C15_OnePostPerTurn == turnPosts <= 1

\* the posting step of an eligible submit: exactly one call, the trimmed draft
\* tagged with the local role and the session id; draft and log untouched
PostsTrimmedDraft ==
  (Send /\ SendProceeds) =>
    /\ Len(emitted') = 1
    /\ emitted'[1].api = "input"
    /\ emitted'[1].session_id = sessionId
    /\ emitted'[1].who = role
    /\ emitted'[1].text = Trim(input)
    /\ msgs' = msgs

C17_RolesPartitioned ==
  sessionConfig # NoConfig =>
    \A r \in Range(TRAVELER_ROLES) :
      Includes(sessionConfig[1].ai_travelers, r) # Includes(humanRoles, r)

\* C18: while the selected local role is an automated one, the handler that
\* ran last (an edit, a loss of focus, a timer) has emitted no typing
\* notification for that role.
C18_NoTypingForAutomated ==
  isSelectedAi =>
    \A k \in 1..Len(emitted) :
      ~(emitted[k].api = "typing" /\ emitted[k].who = role)

\* C19: the handler of a loss of focus emits, in the same step, exactly one
\* typing-inactive notification for the local role, with a timer pending or
\* not, and leaves the timers as they are.
C19_BlurEmitsInactive ==
  [][(OnBlur /\ role # Null) =>
       /\ Len(emitted') = 1
       /\ emitted'[1].api = "typing" /\ ~emitted'[1].active
       /\ emitted'[1].who = role /\ emitted'[1].session_id = sessionId
       /\ timers' = timers /\ typingTimer' = typingTimer]_vars

\* C19 witness: the focus was lost right after an edit; the inactive
\* notification is out while the timer of the edit is still pending.
C19_Witness ==
  /\ Len(emitted) = 1 /\ emitted[1].by = "blur" /\ ~emitted[1].active
  /\ emitted[1].who = role
  /\ sinceEdit = 0 /\ \E t \in timers : t.left = TYPING_DELAY

\* C20: after every step the keys of the typing map are speakers of the turn
\* order, and no step removes a key.
C20_TypingKeysInTurnOrder ==
  [][/\ DOMAIN typingMap' \subseteq Range(turnOrder')
     /\ DOMAIN typingMap \subseteq DOMAIN typingMap']_vars

\* C21: after teardown no connection is open and no handle is held, whatever
\* the phase and however the connection stood before; and a teardown that
\* finds the connection already released changes nothing of the connection,
\* the log, the typing map or the phase.
C21_ReleasedOnTeardown ==
  [][/\ view' = "unmounted" => (OpenConnections' = 0 /\ sseRef' = Null)
     /\ (Teardown /\ ~esOpen /\ sseRef = Null) =>
          UNCHANGED <<sseRef, esOpen, esStale, msgs, typingMap, finished>>]_vars

\* C21 witness: the view was torn down in the FINISHED phase reached by the
\* sentinel message, which leaves the connection open until the teardown.
C21_Witness ==
  /\ view = "unmounted" /\ ~esOpen /\ sseRef = Null /\ ~cleanup
  /\ finished /\ msgs = <<[who |-> "traveler_A", content |-> Str(CONSENSUS)]>>

\* C22: at most one debounce timer is pending, and a pending timer is the one
\* typingTimer.current names, so that the next edit cancels it before it
\* schedules the replacement.
C22_OneTimerPending ==
  /\ Cardinality(timers) <= 1
  /\ \A t \in timers : t.id = typingTimer

\* C22 witness: right after the second edit of a burst one timer is pending,
\* with its full delay ahead: the timer of the first edit was cancelled.
C22_Witness ==
  /\ burst.edits = 2 /\ burst.human /\ sinceEdit = 0
  /\ Cardinality(timers) = 1 /\ \A t \in timers : t.left = TYPING_DELAY

IsPrefix(p, q) == Len(p) <= Len(q) /\ SubSeq(q, 1, Len(p)) = p
MessagePayloads == {e \in CorePayloads : e.type = "message"}

\* C23: across every step the log before is a prefix of the log after; the
\* handler of a message event appends exactly its entry at the end; and a
\* step that changes the log, the typing map or the phase is a step of the
\* stream handler, never one of a local trigger.
C23_LogOwnedByStream ==
  [][/\ IsPrefix(msgs, msgs') /\ Len(msgs') <= Len(msgs) + 1
     /\ \A e \in MessagePayloads :
          EsOnMessage(e) =>
            msgs' = Append(msgs, [who |-> e.who, content |-> e.content])
     /\ (msgs' # msgs \/ typingMap' # typingMap \/ finished' # finished) =>
          \E e \in CorePayloads : EsOnMessage(e)]_vars

\* C23 witness: two messages are in the log in the order of their arrival,
\* while a submission is outstanding, a timer is pending and the config is
\* resolved: local triggers of every kind ran beside the stream.
C23_Witness ==
  /\ Len(msgs) = 2 /\ msgs[1].who = "traveler_A" /\ msgs[2].who = "moderator"
  /\ sending = 1 /\ timers # {} /\ configFetch = "settled"
  /\ role = "traveler_B"

\* C24: a step in which an outbound call ends in failure (the request is
\* rejected or answered with a non-success status) makes no further call and
\* leaves the log, the typing map, the phase and the inputs of eligibility
\* (role, assignment, turn order, draft) as they were.
C24_FailureChangesNothing ==
  [][lastResponse' \in {"input not ok", "input rejected", "typing failed"} =>
       /\ emitted' = <<>>
       /\ UNCHANGED <<msgs, typingMap, finished, role, sessionConfig, turnOrder,
                      input>>]_vars

\* C25: once the configuration is resolved, none of the roles a submission
\* was posted under, before or after the resolution, is one the resolved
\* configuration lists as automated.
C25_NoPostAsAutomated ==
  sessionConfig # NoConfig =>
    \A r \in postedAs : ~Includes(sessionConfig[1].ai_travelers, r)

\* the speaker before r in the order, cyclically
Predecessor(order, r) ==
  order[((IndexOf(order, r) + Len(order) - 1) % Len(order)) + 1]

\* C26: the computed next speaker is never the speaker of the last message;
\* while the last message is the local role's own, canSubmit is false; and
\* canSubmit is true only while the last message is one of the predecessor of
\* the local role in the turn order.
C26_NextIsNotLast ==
  /\ Len(msgs) > 0 => currentNext # Last(msgs).who
  /\ (Len(msgs) > 0 /\ Last(msgs).who = role) => ~canSubmit
  /\ canSubmit =>
       (Len(msgs) > 0 /\ Last(msgs).who = Predecessor(turnOrder, role))

\* C26 witness: the local role's own message is the last entry after the
\* moderator's; the role is a human one, the session is active and the draft
\* is not blank, so it is the turn alone that keeps canSubmit false.
C26_Witness ==
  /\ Len(msgs) = 2 /\ msgs[1].who = "moderator" /\ Last(msgs).who = role
  /\ ~isSelectedAi /\ ~finished /\ Trim(input) # <<>>
  /\ ~canSubmit /\ currentNext = "traveler_B"

\* C27: a role whose last typing notification was active gets an inactive one
\* in the end, only the timers being assumed to run: in every state such a
\* role has a timer pending that will emit its inactive notification.
C27_ActiveHasInactivePending ==
  \A r \in owed : \E t \in timers : t.who = r

====
